---- MODULE Spec2Model ----
(***************************************************************************)
(* The two patch scripts of src-tauri/src/commands/claude:                 *)
(*   precise_modify.py and modify_script.py.                               *)
(* Each reads project_store.rs as text, keeps lines[:89], appends a        *)
(* replacement block, keeps lines[105:], and rewrites the file in place.   *)
(*                                                                         *)
(* A file is a sequence of atoms.  An atom is a line feed, a carriage      *)
(* return, a byte that is not valid UTF-8, or a run of ordinary text with  *)
(* no line break in it (the scripts never split such a run, so one atom    *)
(* stands for it).  Non-ASCII text of the source is written <U+XXXX>.      *)
(***************************************************************************)
EXTENDS Integers, Sequences, FiniteSets, TLC

VARIABLES
  file,     \* content of project_store.rs on disk
  exists,   \* whether project_store.rs exists
  pc,       \* position of the running script
  lines,    \* the script's list `lines`
  output,   \* the script's list `output` / `output_lines`
  k,        \* number of replacement strings already appended
  wi,       \* number of elements of the output list already written
  err,      \* the exception that ended the run, or "none"
  script,   \* which of the two scripts runs
  linesep,  \* os.linesep of the platform the script runs on
  run,      \* number of the current run of the script
  before,   \* content of the file when the current run started
  orig      \* content of the file before the first run

vars == <<file, exists, pc, lines, output, k, wi, err, script, linesep, run, before, orig>>

LF == "\n"
CR == "\r"
BAD == "<0xFF>"

\* lines[:89] and lines[105:] in both scripts
Start == 89
End == 105

\* bounds of the explored inputs
MaxSmall == 1
MaxExtra == 2
MaxShift == 1
MaxRuns == 2

Min(a, b) == IF a < b THEN a ELSE b
Max(a, b) == IF a > b THEN a ELSE b

RECURSIVE ConcatRange(_, _, _)
\* ss[lo] \o ... \o ss[hi], by halves
ConcatRange(ss, lo, hi) ==
  IF lo > hi THEN <<>>
  ELSE IF lo = hi THEN ss[lo]
  ELSE ConcatRange(ss, lo, (lo + hi) \div 2) \o ConcatRange(ss, (lo + hi) \div 2 + 1, hi)

\* ''.join(list): the concatenation of the elements of a list of strings
Flatten(ss) == ConcatRange(ss, 1, Len(ss))

\* Python's s[:n] for n >= 0
PySliceTo(s, n) == SubSeq(s, 1, Min(n, Len(s)))

\* s[n-1:] in place of s[n:]: the slice starts one element early
PySliceFromOffByOne(s, n) == IF n - 1 >= Len(s) THEN <<>> ELSE SubSeq(s, Max(n, 1), Len(s))

\* Python's s[n:] for n >= 0
PySliceFrom(s, n) == IF n >= Len(s) THEN <<>> ELSE SubSeq(s, n + 1, Len(s))

\* decoding as UTF-8 (errors='strict') raises on an invalid byte
DecodeFails(bytes) == \E i \in 1..Len(bytes) : bytes[i] = BAD

\* text mode with newline=None on input: "\r\n" and "\r" are read as "\n"
UniversalNewlines(s) ==
  Flatten([i \in 1..Len(s) |->
             IF s[i] = CR THEN <<LF>>
             ELSE IF s[i] = LF /\ i > 1 /\ s[i - 1] = CR THEN <<>>
             ELSE <<s[i]>>])

\* the lines of a \o b from the lines of a and the lines of b
JoinLines(a, b) ==
  IF a = <<>> THEN b
  ELSE IF b = <<>> THEN a
  ELSE IF a[Len(a)][Len(a[Len(a)])] = LF THEN a \o b
  ELSE SubSeq(a, 1, Len(a) - 1) \o <<a[Len(a)] \o Head(b)>> \o Tail(b)

RECURSIVE SplitKeepEnds(_, _, _)
\* the lines of s[lo..hi], cut after every "\n", each line keeping it
SplitKeepEnds(s, lo, hi) ==
  IF lo > hi THEN <<>>
  ELSE IF lo = hi THEN << <<s[lo]>> >>
  ELSE JoinLines(SplitKeepEnds(s, lo, (lo + hi) \div 2),
                 SplitKeepEnds(s, (lo + hi) \div 2 + 1, hi))

\* f.readlines() of a file that decodes
ReadLinesOf(bytes) ==
  LET text == UniversalNewlines(bytes) IN SplitKeepEnds(text, 1, Len(text))

\* text mode with newline=None on output: every "\n" is written as os.linesep
Encode(s, sep) == Flatten([i \in 1..Len(s) |-> IF s[i] = LF THEN sep ELSE <<s[i]>>])

\* what f.writelines(out) puts in a file opened with 'w'
Written(out, sep) == Flatten([i \in 1..Len(out) |-> Encode(out[i], sep)])

\* the 23 strings precise_modify.py appends one by one
BlockLines ==
  <<<<"                                    // <U+9A8C><U+8BC1><U+4F1A><U+8BDD><U+662F><U+5426><U+6709><U+6548>(<U+6709><U+7528><U+6237><U+6D88><U+606F>)<U+624D><U+8BA1><U+5165><U+7EDF><U+8BA1>", LF>>,
     <<"                                    let metadata = extract_session_metadata(&session_path);", LF>>,
     <<"                                    let has_user_message = metadata.first_message", LF>>,
     <<"                                        .as_ref()", LF>>,
     <<"                                        .map(|msg| !msg.trim().is_empty())", LF>>,
     <<"                                        .unwrap_or(false);", LF>>,
     <<LF>>,
     <<"                                    if has_user_message {", LF>>,
     <<"                                        sessions.push(session_id.to_string());", LF>>,
     <<LF>>,
     <<"                                        if let Ok(session_metadata) = fs::metadata(&session_path) {", LF>>,
     <<"                                            let session_modified = session_metadata", LF>>,
     <<"                                                .modified()", LF>>,
     <<"                                                .unwrap_or(SystemTime::UNIX_EPOCH)", LF>>,
     <<"                                                .duration_since(SystemTime::UNIX_EPOCH)", LF>>,
     <<"                                                .unwrap_or_default()", LF>>,
     <<"                                                .as_secs();", LF>>,
     <<LF>>,
     <<"                                            if session_modified > latest_activity {", LF>>,
     <<"                                                latest_activity = session_modified;", LF>>,
     <<"                                            }", LF>>,
     <<"                                        }", LF>>,
     <<"                                    }", LF>> >>

\* new_code with the closing quotes right after the last brace: no final "\n"
new_code_NoFinalNewline ==
  SubSeq(Flatten(BlockLines), 1, Len(Flatten(BlockLines)) - 1)

\* the one multi-line string modify_script.py appends
new_code ==
  << "                                    // <U+9A8C><U+8BC1><U+4F1A><U+8BDD><U+662F><U+5426><U+6709><U+6548>(<U+6709><U+7528><U+6237><U+6D88><U+606F>)<U+624D><U+8BA1><U+5165><U+7EDF><U+8BA1>", LF,
     "                                    let metadata = extract_session_metadata(&session_path);", LF,
     "                                    let has_user_message = metadata.first_message", LF,
     "                                        .as_ref()", LF,
     "                                        .map(|msg| !msg.trim().is_empty())", LF,
     "                                        .unwrap_or(false);", LF,
     LF,
     "                                    if has_user_message {", LF,
     "                                        sessions.push(session_id.to_string());", LF,
     LF,
     "                                        if let Ok(session_metadata) = fs::metadata(&session_path) {", LF,
     "                                            let session_modified = session_metadata", LF,
     "                                                .modified()", LF,
     "                                                .unwrap_or(SystemTime::UNIX_EPOCH)", LF,
     "                                                .duration_since(SystemTime::UNIX_EPOCH)", LF,
     "                                                .unwrap_or_default()", LF,
     "                                                .as_secs();", LF,
     LF,
     "                                            if session_modified > latest_activity {", LF,
     "                                                latest_activity = session_modified;", LF,
     "                                            }", LF,
     "                                        }", LF,
     "                                    }", LF >>

\* precise_modify.py as a whole: the list it hands to writelines
PreciseOutput(ls) == PySliceTo(ls, Start) \o BlockLines \o PySliceFrom(ls, End)

\* modify_script.py as a whole: the list it hands to writelines
ModifyOutput(ls) == PySliceTo(ls, Start) \o <<new_code>> \o PySliceFrom(ls, End)

ScriptNames == {"precise_modify", "modify_script"}

\* os.linesep: "\n" on POSIX, "\r\n" on Windows
LineSeps == {<<LF>>, <<CR, LF>>}

\* line terminators an input file may use
Terminators == {<<LF>>, <<CR, LF>>, <<CR>>}

\* numbers of lines of the explored input files: around 0, around 89, around 105
FileLens == (0..MaxSmall) \cup ((Start - 1)..(Start + 1)) \cup ((End - 1)..(End + MaxExtra))

\* text of line i of a file that has `shift` lines inserted at its top
LineText(i, shift) ==
  IF i <= shift THEN "New" \o ToString(i) ELSE "L" \o ToString(i - shift)

\* a file of n lines; only the last line may lack its terminator
MkFile(n, term, finalTerm, shift) ==
  Flatten([i \in 1..n |->
             <<LineText(i, shift)>> \o (IF i = n /\ ~finalTerm THEN <<>> ELSE term)])

Init ==
  \E n \in FileLens, term \in Terminators, finalTerm \in BOOLEAN,
     shift \in 0..MaxShift, invalid \in BOOLEAN, present \in BOOLEAN :
    /\ exists = present
    /\ file = IF ~present THEN <<>>
              ELSE IF invalid THEN Append(MkFile(n, term, finalTerm, shift), BAD)
              ELSE MkFile(n, term, finalTerm, shift)
    /\ before = file
    /\ orig = file
    /\ pc = "start"
    /\ lines = <<>>
    /\ output = <<>>
    /\ k = 0
    /\ wi = 0
    /\ err = "none"
    /\ run = 1
    /\ script \in ScriptNames
    /\ linesep \in LineSeps

\* open('project_store.rs', 'r', encoding='utf-8')
OpenRead ==
  /\ pc = "start"
  /\ IF exists
     THEN pc' = "reading" /\ err' = err
     ELSE pc' = "error" /\ err' = "FileNotFoundError"
  /\ UNCHANGED <<file, exists, lines, output, k, wi, script, linesep, run, before, orig>>

\* lines = f.readlines(), and the end of the with block
ReadLines ==
  /\ pc = "reading"
  /\ IF DecodeFails(file)
     THEN pc' = "error" /\ err' = "UnicodeDecodeError" /\ lines' = lines
     ELSE pc' = "loaded" /\ err' = err /\ lines' = ReadLinesOf(file)
  /\ UNCHANGED <<file, exists, output, k, wi, script, linesep, run, before, orig>>

\* del lines[89:]; output = lines: the prefix is cut out of the loaded list itself
SlicePrefixInPlace ==
  /\ pc = "loaded"
  /\ lines' = PySliceTo(lines, Start)
  /\ output' = PySliceTo(lines, Start)
  /\ pc' = "appending"
  /\ UNCHANGED <<file, exists, k, wi, err, script, linesep, run, before, orig>>

\* output = lines[:89]
SlicePrefix ==
  /\ pc = "loaded"
  /\ output' = PySliceTo(lines, Start)
  /\ pc' = "appending"
  /\ UNCHANGED <<file, exists, lines, k, wi, err, script, linesep, run, before, orig>>

\* precise_modify.py: the next output.append('...\n')
AppendLine ==
  /\ pc = "appending"
  /\ script = "precise_modify"
  /\ k < Len(BlockLines)
  /\ output' = Append(output, BlockLines[k + 1])
  /\ k' = k + 1
  /\ pc' = IF k + 1 = Len(BlockLines) THEN "extending" ELSE "appending"
  /\ UNCHANGED <<file, exists, lines, wi, err, script, linesep, run, before, orig>>

\* modify_script.py: output_lines.append(new_code)
AppendNewCode ==
  /\ pc = "appending"
  /\ script = "modify_script"
  /\ output' = Append(output, new_code)
  /\ pc' = "extending"
  /\ UNCHANGED <<file, exists, lines, k, wi, err, script, linesep, run, before, orig>>

\* output.extend(lines[89:]): the old lines 90..105 are not skipped
ExtendSuffixNoSkip ==
  /\ pc = "extending"
  /\ output' = output \o PySliceFrom(lines, Start)
  /\ pc' = "built"
  /\ UNCHANGED <<file, exists, lines, k, wi, err, script, linesep, run, before, orig>>

\* output.extend(lines[105:])
ExtendSuffix ==
  /\ pc = "extending"
  /\ output' = output \o PySliceFrom(lines, End)
  /\ pc' = "built"
  /\ UNCHANGED <<file, exists, lines, k, wi, err, script, linesep, run, before, orig>>

\* the file is opened for writing before the suffix is added to the output
OpenWriteBeforeBuilt ==
  /\ pc \in {"extending", "built"}
  /\ file' = <<>>
  /\ exists' = TRUE
  /\ pc' = "writing"
  /\ wi' = 0
  /\ UNCHANGED <<lines, output, k, err, script, linesep, run, before, orig>>

\* open('project_store.rs', 'w', encoding='utf-8'): creates or truncates the file
OpenWrite ==
  /\ pc = "built"
  /\ file' = <<>>
  /\ exists' = TRUE
  /\ pc' = "writing"
  /\ wi' = 0
  /\ UNCHANGED <<lines, output, k, err, script, linesep, run, before, orig>>

\* open(..., 'w') raises OSError (permission denied): nothing is truncated
OpenWriteFail ==
  /\ pc = "built"
  /\ pc' = "error"
  /\ err' = "OSError"
  /\ UNCHANGED <<file, exists, lines, output, k, wi, script, linesep, run, before, orig>>

\* f.writelines(output): the next element of the list reaches the file
WriteElement ==
  /\ pc = "writing"
  /\ wi < Len(output)
  /\ file' = file \o Encode(output[wi + 1], linesep)
  /\ wi' = wi + 1
  /\ UNCHANGED <<exists, pc, lines, output, k, err, script, linesep, run, before, orig>>

\* a write raises OSError (disk full) after any number of elements, or at the
\* flush of the closing with block; what was written stays in the file
WriteFail ==
  /\ pc = "writing"
  /\ pc' = "error"
  /\ err' = "OSError"
  /\ UNCHANGED <<file, exists, lines, output, k, wi, script, linesep, run, before, orig>>

\* the end of the with block after the last element
CloseWrite ==
  /\ pc = "writing"
  /\ wi = Len(output)
  /\ pc' = "closed"
  /\ UNCHANGED <<file, exists, lines, output, k, wi, err, script, linesep, run, before, orig>>

\* print(...): the script ends
PrintDone ==
  /\ pc = "closed"
  /\ pc' = "done"
  /\ UNCHANGED <<file, exists, lines, output, k, wi, err, script, linesep, run, before, orig>>

\* the same script is started again on the file it wrote
RunAgain ==
  /\ pc = "done"
  /\ run < MaxRuns
  /\ run' = run + 1
  /\ pc' = "start"
  /\ lines' = <<>>
  /\ output' = <<>>
  /\ k' = 0
  /\ wi' = 0
  /\ before' = file
  /\ UNCHANGED <<file, exists, err, script, linesep, orig>>

\* the values the state takes
TypeOK ==
  /\ exists \in BOOLEAN
  /\ pc \in {"start", "reading", "loaded", "appending", "extending", "built",
             "writing", "closed", "done", "error"}
  /\ err \in {"none", "FileNotFoundError", "UnicodeDecodeError", "OSError"}
  /\ (pc = "error") = (err # "none")
  /\ script \in ScriptNames
  /\ linesep \in LineSeps
  /\ run \in 1..MaxRuns
  /\ k \in 0..Len(BlockLines)
  /\ wi \in 0..Len(output)
  /\ \A i \in 1..Len(lines) : Len(lines[i]) >= 1 /\ CR \notin {lines[i][j] : j \in 1..Len(lines[i])}
  /\ ~exists => file = <<>>

Next ==
  \/ OpenRead
  \/ ReadLines
  \/ SlicePrefix
  \/ AppendLine
  \/ AppendNewCode
  \/ ExtendSuffix
  \/ OpenWrite
  \/ OpenWriteFail
  \/ WriteElement
  \/ WriteFail
  \/ CloseWrite
  \/ PrintDone
  \/ RunAgain

Spec == Init /\ [][Next]_vars


(***************************************************************************)
(* Properties                                                              *)
(***************************************************************************)

\* number of list elements the running script inserts: 23 strings or 1 string
ReplacementLen == IF script = "precise_modify" THEN Len(BlockLines) ELSE 1

\* the script is past readlines() and has not been stopped by a load error
Loaded ==
  \/ pc \in {"loaded", "appending", "extending", "built", "writing", "closed", "done"}
  \/ pc = "error" /\ err \notin {"FileNotFoundError", "UnicodeDecodeError"}

\* the script is past the lines that build the output list
Applied == pc \in {"appending", "extending", "built", "writing", "closed", "done"}

C2_OutOfBoundsRejected ==
  (Loaded /\ Len(lines) < End) =>
    /\ pc \in {"loaded", "error"}
    /\ pc = "error" => err = "RangeOutOfBounds"
    /\ file = before

\* C3: the file holds the complete old content or the complete new content in
\* every state, and the old content after a failed write.
C3_AtomicPersist ==
  /\ \/ file = before
     \/ pc \in {"writing", "closed", "done"} /\ file = Written(output, linesep)
  /\ err = "OSError" => file = before

\* text of the line the range [89,105) was computed behind: line 89 of the
\* file with nothing inserted above it
ExpectedPrefixMarker == LineText(Start, 0)

\* C4: when the line at index 88 is not the line the range was computed behind,
\* the run must stop with StaleRange before it builds or writes anything.
C4_StaleRangeRejected ==
  (Loaded /\ Len(lines) >= Start /\ lines[Start][1] # ExpectedPrefixMarker) =>
    /\ pc \in {"loaded", "error"}
    /\ pc = "error" => err = "StaleRange"
    /\ file = before

\* the positions in bytes where a line ends: at "\n", or at a "\r" no "\n" follows
RawLineEnds(bytes) ==
  {i \in 1..Len(bytes) :
     \/ bytes[i] = LF
     \/ bytes[i] = CR /\ ~(i < Len(bytes) /\ bytes[i + 1] = LF)}

\* the position where line j of bytes ends, its terminator included
RawLineEnd(bytes, j) ==
  LET ends == RawLineEnds(bytes) IN
    IF j > Cardinality(ends) THEN Len(bytes)
    ELSE CHOOSE e \in ends : Cardinality({x \in ends : x <= e}) = j

\* C5: after a finished run on a file of at least 105 lines, the bytes of the
\* first 89 lines and the bytes after line 105 are those of the old file,
\* terminators included.
C5_TerminatorsPreserved ==
  (pc = "done" /\ Len(lines) >= End) =>
    LET p == RawLineEnd(before, Start)
        q == RawLineEnd(before, End)
        tail == Len(before) - q
    IN /\ Len(file) >= p + tail
       /\ SubSeq(file, 1, p) = SubSeq(before, 1, p)
       /\ SubSeq(file, Len(file) - tail + 1, Len(file)) = SubSeq(before, q + 1, Len(before))

\* C6: a run stopped by FileNotFoundError or UnicodeDecodeError leaves the file
\* as it was (a missing file stays missing); the file is unchanged until it is
\* opened for writing; and when it has just been opened for writing, readlines
\* has completed and the whole output list is built.
C6_ErrorsPrecedeWrite ==
  /\ err \in {"FileNotFoundError", "UnicodeDecodeError"} =>
       /\ pc = "error"
       /\ file = before
       /\ err = "FileNotFoundError" => ~exists
  /\ pc \in {"start", "reading", "loaded", "appending", "extending", "built"} =>
       file = before
  /\ (pc = "writing" /\ wi = 0) =>
       /\ lines = ReadLinesOf(before)
       /\ Len(output) = Min(Len(lines), Start) + ReplacementLen + Max(0, Len(lines) - End)
       /\ Flatten(output)
            = Flatten(SubSeq(lines, 1, Min(Len(lines), Start))) \o Flatten(BlockLines)
                \o Flatten(SubSeq(lines, End + 1, Len(lines)))

\* a run stopped by a decoding error on a file that has content
C6_Witness ==
  pc = "error" /\ err = "UnicodeDecodeError" /\ Len(file) > 1 /\ exists

\* C7: from readlines() to the end of the run no step changes the list `lines`.
C7_ApplyPure ==
  [][(Loaded /\ pc' # "start") => lines' = lines]_vars

\* the output list is built from a file longer than the kept prefix
C7_Witness ==
  pc = "built" /\ Len(lines) > Start /\ Len(output) # Len(lines)

\* C8: read with 1-based line numbers, the comments say the old lines 90..104
\* are skipped and the file is kept from line 105 on, so that the old line 105
\* follows the inserted block.
C8_KeepsFromLine105 ==
  (pc = "done" /\ Len(lines) >= End) =>
    ReadLinesOf(file)
      = SubSeq(lines, 1, Start) \o BlockLines \o SubSeq(lines, End, Len(lines))

\* C9: whichever script ran, the file it wrote is what precise_modify.py writes
\* and what modify_script.py writes for the loaded lines, while the output lists
\* have len(prefix)+23+len(suffix) and len(prefix)+1+len(suffix) elements.
C9_ScriptsEquivalent ==
  /\ pc = "done" =>
       /\ file = Written(PreciseOutput(lines), linesep)
       /\ file = Written(ModifyOutput(lines), linesep)
  /\ pc \in {"built", "writing", "closed", "done"} =>
       Len(output) = Min(Len(lines), Start) + Max(0, Len(lines) - End)
                       + (IF script = "precise_modify" THEN 23 ELSE 1)

\* modify_script.py has finished on a short file
C9_Witness ==
  pc = "done" /\ script = "modify_script" /\ Len(lines) > 0 /\ Len(lines) < Start

\* the old lines of a written file at a second run: the first run's output
SecondRunLines ==
  LET l0 == ReadLinesOf(orig) IN
    SubSeq(l0, 1, Start) \o BlockLines
      \o SubSeq(BlockLines, End - Start + 1, Len(BlockLines))
      \o SubSeq(l0, End + 1, Len(l0))

\* C10 as stated: the written file of an n-line input has
\* min(n,89) + 23 + max(0,n-105) lines, which is not n; the run changes the
\* file; for n >= 105 the second run gives prefix, block, the last 7 block
\* lines and the suffix.
C10_LineCountAsStated ==
  pc = "done" =>
    LET n == Len(lines)
        m == Len(ReadLinesOf(file))
    IN /\ m = Min(n, Start) + 23 + Max(0, n - End)
       /\ m # n
       /\ file # before
       /\ (run = 2 /\ Len(ReadLinesOf(orig)) >= End) => ReadLinesOf(file) = SecondRunLines

\* the old file's last line has no terminator and lies in the kept prefix
LastLineJoined ==
  /\ Len(lines) >= 1
  /\ Len(lines) <= Start
  /\ lines[Len(lines)][Len(lines[Len(lines)])] # LF

\* C10 amended: the written file has min(n,89) + 23 + max(0,n-105) lines, less
\* one when the last line of an input of 1..89 lines has no terminator (the
\* first block line is written onto it); this is more than n, the run changes
\* the file, and for n >= 105 the second run gives prefix, block, the last 7
\* block lines and the suffix.
C10_NeverIdempotent ==
  pc = "done" =>
    LET n == Len(lines)
        m == Len(ReadLinesOf(file))
    IN /\ m = Min(n, Start) + 23 + Max(0, n - End) - (IF LastLineJoined THEN 1 ELSE 0)
       /\ m > n
       /\ file # before
       /\ (run = 2 /\ Len(ReadLinesOf(orig)) >= End) => ReadLinesOf(file) = SecondRunLines

\* a second run has finished on the output of a first run
C10_Witness ==
  pc = "done" /\ run = 2 /\ Len(lines) > End /\ file # orig

====
